---- MODULE Spec2Model ----
(***************************************************************************)
(* State-machine model of app.py: the Flask handlers /check and /notify,   *)
(* the Notification table, and the APScheduler job process_notifications.  *)
(*                                                                         *)
(* Strings are sequences of one-character strings, so that lower(),       *)
(* strip(), upper(), "." in s and concatenation are computed.  The string  *)
(* operators use parameter names of their own: TLC evaluates arguments     *)
(* lazily and mixes up equal names of nested operators.                    *)
(*                                                                         *)
(* Processes.  `python app.py` runs app.run(debug=True): the module body   *)
(* (which builds and starts the BackgroundScheduler) is executed once in   *)
(* the launching process and once more in the serving process that the     *)
(* debug reloader spawns, so two schedulers run the job against the same  *)
(* database (Pollers).  Each scheduler keeps at most one running instance  *)
(* of its job (add_job default) and drops a tick that fires meanwhile.     *)
(* Only the serving process handles HTTP requests, one thread per request  *)
(* (Threads).                                                              *)
(*                                                                         *)
(* Sessions.  Every thread has its own SQLAlchemy session, discarded when  *)
(* its app context ends.  commit() flushes the session's changed objects   *)
(* and commits.  app.py never calls rollback(): after a commit() that      *)
(* raised, the session refuses further SQL until it is discarded           *)
(* (sess = "broken"); objects whose attributes are expired then raise on   *)
(* attribute access.                                                       *)
(***************************************************************************)
EXTENDS Integers, Sequences, FiniteSets, TLC

\* ------------------------------------------------------------------ bounds
MaxRows == 2
MaxSent == 2
MaxStr == 3
MaxCheckN == 2

\* ----------------------------------------------------------------- strings
LowerCh(c) ==
    CASE c = "A" -> "a"
      [] c = "B" -> "b"
      [] c = "E" -> "e"
      [] c = "I" -> "i"
      [] c = "L" -> "l"
      [] c = "V" -> "v"
      [] c = "X" -> "x"
      [] OTHER -> c

UpperCh(c) ==
    CASE c = "a" -> "A"
      [] c = "b" -> "B"
      [] c = "e" -> "E"
      [] c = "i" -> "I"
      [] c = "l" -> "L"
      [] c = "v" -> "V"
      [] c = "x" -> "X"
      [] OTHER -> c

Lower(ls) == [li \in 1..Len(ls) |-> LowerCh(ls[li])]

\* Variant: the status is compared as it is.
Upper_AsIs(us) == us

Upper(us) == [ui \in 1..Len(us) |-> UpperCh(us[ui])]

RECURSIVE LStrip(_)
LStrip(xs) == IF xs # <<>> /\ Head(xs) = " " THEN LStrip(Tail(xs)) ELSE xs

RECURSIVE RStrip(_)
RStrip(ys) ==
    IF ys # <<>> /\ ys[Len(ys)] = " " THEN RStrip(SubSeq(ys, 1, Len(ys) - 1)) ELSE ys

Strip(zs) == RStrip(LStrip(zs))

HasDot(hs) == \E hi \in 1..Len(hs) : hs[hi] = "."

DotCom == <<".", "c", "o", "m">>

\* --------------------------------------------------- request normalisation
\* notify(): domain = data.get("domain").strip().lower(); ".com" appended
\* when the result holds no "."
NotifyDomain(raw) ==
    LET d == Lower(Strip(raw)) IN IF ~HasDot(d) THEN d \o DotCom ELSE d

\* notify(): email = data.get("email").strip().lower()
NotifyEmail(raw) == Lower(Strip(raw))

\* check_domain(): query = data.get("query").strip().lower()
CheckQuery(raw) == Lower(Strip(raw))

\* Variant: ".com" is appended whatever the query holds.
CheckDomain_Always(cq) == cq \o DotCom

\* check_domain(): domain = query if "." in query else query + ".com"
CheckDomain(cq) == IF HasDot(cq) THEN cq ELSE cq \o DotCom

\* ------------------------------------------------------ availability check
\* A value of the JSON field domainAvailability: absent (None), a string,
\* or a value that is no string (it has no upper()).
NoField == [tag |-> "none", val |-> <<>>]
StrField(s) == [tag |-> "str", val |-> s]
NonStrField == [tag |-> "nonstr", val |-> <<>>]

AVAILABLE == <<"A", "V", "A", "I", "L", "A", "B", "L", "E">>

\* What requests.get(...).json() can produce: the call raises (transport
\* error, timeout), the body is no JSON, the JSON is no object, or it is an
\* object with an optional DomainInfo object and an optional flat field.
NetError == [kind |-> "neterr", hasInfo |-> FALSE, info |-> NoField, flat |-> NoField]
BadJson == [kind |-> "badjson", hasInfo |-> FALSE, info |-> NoField, flat |-> NoField]
JsonList == [kind |-> "jsonlist", hasInfo |-> FALSE, info |-> NoField, flat |-> NoField]
Nested(st, fl) == [kind |-> "json", hasInfo |-> TRUE, info |-> st, flat |-> fl]
Flat(fl) == [kind |-> "json", hasInfo |-> FALSE, info |-> NoField, flat |-> fl]

\* Python truthiness of the status value: None and "" are falsy.
Truthy(st) == st.tag = "nonstr" \/ (st.tag = "str" /\ st.val # <<>>)

\* whoisxml_check(domain) on the reply r: "available" for True,
\* "unavailable" for False, "error" for the RuntimeError it raises.
whoisxml_check(r) ==
    IF r.kind # "json" THEN "error"
    ELSE LET status == IF r.hasInfo THEN r.info ELSE r.flat IN
         IF Truthy(status)
         THEN IF status.tag = "nonstr" THEN "error"
              ELSE IF Upper(status.val) = AVAILABLE THEN "available"
                   ELSE "unavailable"
         ELSE "unavailable"

\* ------------------------------------------------------ generate_suggestions
COMMON_TLDS ==
    << <<".", "c", "o", "m">>,
       <<".", "n", "e", "t">>,
       <<".", "o", "r", "g">>,
       <<".", "i", "o">>,
       <<".", "c", "o">>,
       <<".", "a", "i">>,
       <<".", "x", "y", "z">>,
       <<".", "t", "e", "c", "h">>,
       <<".", "d", "e", "v">>,
       <<".", "a", "p", "p">>,
       <<".", "t", "v">>,
       <<".", "m", "e">>,
       <<".", "l", "i", "n", "k">>,
       <<".", "s", "h", "o", "p">> >>

prefixes ==
    << <<"g", "e", "t">>,
       <<"t", "r", "y">>,
       <<"t", "h", "e">>,
       <<"m", "y">>,
       <<"u", "s", "e">>,
       <<"g", "o">>,
       <<"h", "e", "y">>,
       <<"j", "o", "i", "n">>,
       <<"i", "s">>,
       <<"d", "o">>,
       <<"p", "r", "o">>,
       <<"u", "l", "t", "r", "a">> >>

suffixes ==
    << <<"a", "p", "p">>,
       <<"h", "q">>,
       <<"s", "p", "a", "c", "e">>,
       <<"o", "n", "l", "i", "n", "e">>,
       <<"s", "i", "t", "e">>,
       <<"h", "u", "b">>,
       <<"l", "a", "b", "s">>,
       <<"i", "o">>,
       <<"d", "e", "v">>,
       <<"p", "r", "o">>,
       <<"t", "v">>,
       <<"c", "l", "o", "u", "d">> >>

double_suffixes ==
    << <<"h", "u", "b", ".", "i", "o">>,
       <<"l", "a", "b", "s", ".", "i", "o">>,
       <<"d", "e", "v", ".", "i", "o">>,
       <<"a", "p", "p", ".", "i", "o">>,
       <<"o", "n", "l", "i", "n", "e", ".", "i", "o">> >>

\* the keywords of `variations`: label + keyword + ".com"
variations ==
    << <<"a", "p", "p">>,
       <<"p", "r", "o">>,
       <<"o", "n", "l", "i", "n", "e">>,
       <<"a", "i">> >>

\* label = query.split(".")[0] if "." in query else query
RECURSIVE BeforeDot(_)
BeforeDot(bs) ==
    IF bs = <<>> \/ Head(bs) = "." THEN <<>> ELSE <<Head(bs)>> \o BeforeDot(Tail(bs))

Label(lq) == IF HasDot(lq) THEN BeforeDot(lq) ELSE lq

\* The candidates in the order the five loops append them.
Candidates(label) ==
    [k \in 1..Len(COMMON_TLDS) |-> label \o COMMON_TLDS[k]]
    \o [k \in 1..Len(prefixes) |-> prefixes[k] \o label \o DotCom]
    \o [k \in 1..Len(suffixes) |-> label \o suffixes[k] \o DotCom]
    \o [k \in 1..Len(double_suffixes) |-> label \o <<".">> \o double_suffixes[k]]
    \o [k \in 1..Len(variations) |-> label \o variations[k] \o DotCom]

\* Variant: duplicates are kept.
FromKeys_Keep(fs) == fs

\* list(dict.fromkeys(candidates)): the strings of fs at the positions where
\* they occur first, in the order of these positions
FromKeys(fs) ==
    LET firsts == { fi \in 1..Len(fs) : \A fj \in 1..(fi - 1) : fs[fj] # fs[fi] }
        rank(x) == Cardinality({ y \in firsts : y <= x })
    IN [fk \in 1..Cardinality(firsts) |-> fs[CHOOSE x \in firsts : rank(x) = fk]]

\* s[:k] for k >= 0
Prefix(ps, pk) == SubSeq(ps, 1, IF pk < Len(ps) THEN pk ELSE Len(ps))

generate_suggestions(query, max_suggestions) ==
    Prefix(FromKeys(Candidates(Label(Lower(query)))), max_suggestions * 3)

\* -------------------------------------------------------- inputs explored
\* Replies of the availability API explored by the poller and by /check.
Replies ==
    { NetError, BadJson,
      Nested(StrField(AVAILABLE), NoField),
      Flat(StrField(<<"a", "v", "a", "i", "l", "a", "b", "l", "e">>)),
      Flat(StrField(<<"U", "N", "A", "V", "A", "I", "L", "A", "B", "L", "E">>)),
      Flat(NoField) }

\* What one whoisxml_check call can come to.
Outcomes == { whoisxml_check(r) : r \in Replies }

\* Raw "query" values and max_suggestions values of /check bodies.
RawQueries == { <<"A", " ">> }
CheckSizes == { 1 }

\* Raw "domain" and "email" values of /notify bodies.
RawDomains == { <<"A">>, <<" ", "a", ".", "c", "o", "m">> }
RawEmails == { <<"X">>, <<"x", " ">>, <<"e">> }

NoReq == [domain |-> <<>>, email |-> <<>>]

\* notify(), lines 205-210: the (domain, email) the handler works with.
Normalised(rd, re) == [domain |-> NotifyDomain(rd), email |-> NotifyEmail(re)]

\* The normalised requests of the bodies explored.
Requests == { Normalised(rd, re) : rd \in RawDomains, re \in RawEmails }

\* ------------------------------------------------------ Notification table
\* One row of class Notification; the id is the row's position in store
\* (autoincrement primary key, no row is ever deleted).
Row(d, e) == [domain |-> d, email |-> e, notified |-> FALSE]

\* Notification.query.filter_by(domain=d, email=e, notified=False)
ActiveRows(s, d, e) ==
    { i \in 1..Len(s) : s[i].domain = d /\ s[i].email = e /\ ~s[i].notified }

\* Notification.query.filter_by(notified=False).all(), in id order
RECURSIVE PendingFrom(_, _)
PendingFrom(s, i) ==
    IF i > Len(s) THEN <<>>
    ELSE IF ~s[i].notified THEN <<i>> \o PendingFrom(s, i + 1)
         ELSE PendingFrom(s, i + 1)

\* Variant: .first() in place of .all().
Pending_First(s) == IF PendingFrom(s, 1) = <<>> THEN <<>> ELSE <<Head(PendingFrom(s, 1))>>

Pending(s) == PendingFrom(s, 1)

\* Variants of the update, used to try the claims on a wrong program:
\* an UPDATE with no WHERE, a flag that is flipped, an update that is lost.
MarkNotified_AllRows(s, i) == [k \in 1..Len(s) |-> [s[k] EXCEPT !.notified = TRUE]]
MarkNotified_Toggle(s, i) == [s EXCEPT ![i].notified = ~@]
MarkNotified_Never(s, i) == s

\* note.notified = True, flushed and committed
MarkNotified(s, i) == [s EXCEPT ![i].notified = TRUE]

\* Variants: the new record overwrites the first row; it is put in front.
Insert_Replace(s, d, e) == IF s = <<>> THEN <<Row(d, e)>> ELSE [s EXCEPT ![1] = Row(d, e)]
Insert_Front(s, d, e) == <<Row(d, e)>> \o s

\* db.session.add(Notification(domain=d, email=e)), committed
Insert(s, d, e) == Append(s, Row(d, e))

\* --------------------------------------------------------------- processes
\* The two processes of `python app.py` under the debug reloader; each has
\* started its own BackgroundScheduler with the job.
Pollers == {"launcher", "server"}

\* Request threads of the serving process (the development server handles
\* each request in its own thread).
Threads == {"t1", "t2"}

VARIABLES
    store,      \* the Notification table (durable, shared by all processes)
    mails,      \* mails[i]: successful send_email calls for row i (saturating)
    pc,         \* pc[p]: where poller p's job is
    rem,        \* rem[p]: the entries of `pending` not yet finished; Head is `note`
    sess,       \* sess[p]: "ok", or "broken" after a commit() that raised
    expired,    \* expired[p]: the session's objects have expired attributes
    cur,        \* cur[p]: what happened so far to the current entry
    hpc,        \* hpc[t]: where request thread t is
    hreq,       \* hreq[t]: the normalised (domain, email) of t's /notify
    last,       \* what the last step gave out: a response, a finished entry
    lost,       \* some successful send was followed by a commit that raised
    calc        \* a call of one of the program's functions: input and result

vars == <<store, mails, pc, rem, sess, expired, cur, hpc, hreq, last, lost, calc>>

pollerVars == <<pc, rem, sess, expired, cur>>
httpVars == <<hpc, hreq>>

NoEntry == [id |-> 0, lookup |-> "none", send |-> "none", commit |-> "none"]
Entry(i) == [NoEntry EXCEPT !.id = i]

\* A response: status and JSON body; calls counts the whoisxml_check calls
\* the request made.
NoResp == [op |-> "none", status |-> 0, message |-> "", domain |-> <<>>,
           available |-> FALSE, suggestions |-> <<>>, calls |-> 0]

\* The last step returned response r to the request rq of thread t.
NoEvent == [kind |-> "none", who |-> "", req |-> NoReq, resp |-> NoResp, entry |-> NoEntry]
Responded(t, rq, r) == [NoEvent EXCEPT !.kind = "response", !.who = t, !.req = rq, !.resp = r]

\* The last step ended poller p's handling of an entry; e tells what the
\* lookup, the send and the commit came to ("none": not reached).
Finished(p, e) == [NoEvent EXCEPT !.kind = "entry", !.who = p, !.entry = e]

\* No function call is followed.
NoCalc == [fn |-> "none", arg |-> <<>>, done |-> FALSE, res |-> <<>>]

\* After `python app.py` has started: db.create_all() has made an empty
\* table, no request is being handled, no job runs.
Started ==
    /\ store = <<>>
    /\ mails = <<>>
    /\ pc = [p \in Pollers |-> "idle"]
    /\ rem = [p \in Pollers |-> <<>>]
    /\ sess = [p \in Pollers |-> "ok"]
    /\ expired = [p \in Pollers |-> FALSE]
    /\ cur = [p \in Pollers |-> NoEntry]
    /\ hpc = [t \in Threads |-> "idle"]
    /\ hreq = [t \in Threads |-> NoReq]
    /\ last = NoEvent
    /\ lost = FALSE

Init == Started /\ calc = NoCalc

\* ------------------------------------------------------------ POST /notify
\* Variant: the query leaves out notified=False.
Exists_AnyRow(s, d, e) == \E i \in 1..Len(s) : s[i].domain = d /\ s[i].email = e

\* Variant: the query filters on the domain only.
Exists_DomainOnly(s, d, e) == \E i \in 1..Len(s) : s[i].domain = d /\ ~s[i].notified

\* exists = Notification.query.filter_by(...).first(); if exists: ...
Exists(s, d, e) == ActiveRows(s, d, e) # {}

Already == [NoResp EXCEPT !.op = "notify", !.status = 200,
                          !.message = "Already registered for this domain"]
Registered == [NoResp EXCEPT !.op = "notify", !.status = 201,
                             !.message = "Notification registered"]
ServerError == [NoResp EXCEPT !.status = 500, !.message = "error"]

\* Threads that have read "no active row" and have not inserted yet.
Inserting == { t \in Threads : hpc[t] = "insert" }

\* notify(), lines 205-217: normalise, query the active row, answer 200 when
\* there is one.  The insert is a later step of the same request: nothing
\* holds the table between the query and the commit.
NotifyQuery(t) ==
    /\ hpc[t] = "idle"
    /\ \E rq \in Requests :
         IF Exists(store, rq.domain, rq.email)
         THEN /\ last' = Responded(t, rq, Already)
              /\ UNCHANGED <<hpc, hreq>>
         ELSE /\ Len(store) + Cardinality(Inserting) < MaxRows
              /\ hpc' = [hpc EXCEPT ![t] = "insert"]
              /\ hreq' = [hreq EXCEPT ![t] = rq]
              /\ last' = NoEvent
    /\ UNCHANGED <<store, mails, lost, pollerVars, calc>>

\* notify(), lines 219-223: add the record and commit, answer 201.  A
\* commit that raises leaves no row and the request ends with a 500.
NotifyInsert(t) ==
    /\ hpc[t] = "insert"
    /\ \E ok \in BOOLEAN :
         IF ok
         THEN /\ store' = Insert(store, hreq[t].domain, hreq[t].email)
              /\ mails' = Append(mails, 0)
              /\ last' = Responded(t, hreq[t], Registered)
         ELSE /\ UNCHANGED <<store, mails>>
              /\ last' = Responded(t, hreq[t], [ServerError EXCEPT !.op = "notify"])
    /\ hpc' = [hpc EXCEPT ![t] = "idle"]
    /\ hreq' = [hreq EXCEPT ![t] = NoReq]
    /\ UNCHANGED <<lost, pollerVars, calc>>

\* ------------------------------------------------------------- POST /check
\* Lines 185-193: the candidates are looked up in order; outs[i] is what
\* the call for cands[i] comes to.  An available candidate is appended, the
\* loop breaks once max_suggestions are held, a raising call is skipped.
\* Variants: the loop never breaks; a raising lookup ends the loop.
RECURSIVE FilterLoop_NoBreak(_, _, _, _, _)
FilterLoop_NoBreak(cands, outs, i, n, sugg) ==
    IF i > Len(cands) THEN [suggestions |-> sugg, calls |-> i - 1]
    ELSE FilterLoop_NoBreak(cands, outs, i + 1, n,
            IF outs[i] = "available" THEN Append(sugg, cands[i]) ELSE sugg)

RECURSIVE FilterLoop_StopOnError(_, _, _, _, _)
FilterLoop_StopOnError(cands, outs, i, n, sugg) ==
    IF i > Len(cands) THEN [suggestions |-> sugg, calls |-> i - 1]
    ELSE IF outs[i] = "error" THEN [suggestions |-> sugg, calls |-> i]
    ELSE LET s2 == IF outs[i] = "available" THEN Append(sugg, cands[i]) ELSE sugg
         IN IF Len(s2) >= n THEN [suggestions |-> s2, calls |-> i]
            ELSE FilterLoop_StopOnError(cands, outs, i + 1, n, s2)

RECURSIVE FilterLoop(_, _, _, _, _)
FilterLoop(cands, outs, i, n, sugg) ==
    IF i > Len(cands) THEN [suggestions |-> sugg, calls |-> i - 1]
    ELSE IF outs[i] = "error" THEN FilterLoop(cands, outs, i + 1, n, sugg)
    ELSE LET s2 == IF outs[i] = "available" THEN Append(sugg, cands[i]) ELSE sugg
         IN IF Len(s2) >= n THEN [suggestions |-> s2, calls |-> i]
            ELSE FilterLoop(cands, outs, i + 1, n, s2)

\* check_domain() on the body {query: rq, max_suggestions: n}, when the
\* primary lookup comes to `first` and the candidates' lookups to outs.
CheckResponse(rq, n, first, outs) ==
    LET query == CheckQuery(rq)
        domain == CheckDomain(query)
        found == FilterLoop(generate_suggestions(query, n), outs, 1, n, <<>>)
    IN IF first = "error"
       THEN [ServerError EXCEPT !.op = "check", !.calls = 1]
       ELSE [NoResp EXCEPT !.op = "check", !.status = 200, !.domain = domain,
                           !.available = (first = "available"),
                           !.suggestions = found.suggestions,
                           !.calls = 1 + found.calls]

\* Every response check_domain() can give on the bodies explored: the pool
\* holds at most 3 * n candidates, outs gives a result for each.
CheckResponses ==
    UNION { { CheckResponse(rq, n, first, outs) :
                rq \in RawQueries, first \in Outcomes, outs \in [1..(3 * n) -> Outcomes] } :
            n \in CheckSizes }

\* check_domain(), lines 170-199.  The handler uses no table and shares
\* nothing with other threads, so its lookups are taken in one step.
Check(t) ==
    /\ hpc[t] = "idle"
    /\ \E r \in CheckResponses : last' = Responded(t, NoReq, r)
    /\ UNCHANGED <<store, mails, lost, httpVars, pollerVars, calc>>

\* ------------------------------------------------- process_notifications
\* Variant: a lookup that raised is taken for an available domain.
AfterLookup_NotFalse(res) == IF res \in {"available", "error"} THEN "send" ELSE "next"

\* if whoisxml_check(note.domain): only True goes on to send_email
AfterLookup(res) == IF res = "available" THEN "send" ELSE "next"

\* Variant: the row is marked whether or not send_email raised.
AfterSend_Ignored(ok) == "commit"

\* send_email raising skips `note.notified = True; db.session.commit()`
AfterSend(ok) == IF ok THEN "commit" ELSE "next"

\* A commit() of a usable session succeeds, or raises during the flush
\* (the session rolls back and expires its objects), or raises at COMMIT.
CommitOutcomes == {"ok", "flushfail", "commitfail"}

Bump(n) == IF n < MaxSent THEN n + 1 ELSE n

\* Variant: the line of line 243 is printed before the commit.
LogLine_BeforeCommit(e) ==
    IF e.send = "ok" THEN "[Scheduler] Email sent"
    ELSE IF e.send = "fail" THEN "Email send failed"
    ELSE IF e.lookup \in {"error", "none"} THEN "WHOIS failed"
    ELSE ""

\* Lines 243-247: what the job prints for an entry handled as e tells:
\* line 243 after the commit returned, line 245 when send_email or the
\* commit raised, line 247 when the lookup (or the read of note.domain)
\* raised, nothing when the lookup said unavailable.
LogLine(e) ==
    IF e.commit = "ok" THEN "[Scheduler] Email sent"
    ELSE IF e.send = "fail" \/ e.commit = "fail" THEN "Email send failed"
    ELSE IF e.lookup \in {"error", "none"} THEN "WHOIS failed"
    ELSE ""

\* The scheduler fires the job while no instance of it runs in this
\* process: line 231 snapshots the pending rows in a new session.
Tick(p) ==
    /\ pc[p] = "idle"
    /\ LET pending == Pending(store) IN
         /\ pending # <<>>
         /\ rem' = [rem EXCEPT ![p] = pending]
         /\ pc' = [pc EXCEPT ![p] = "lookup"]
         /\ cur' = [cur EXCEPT ![p] = Entry(Head(pending))]
    /\ last' = NoEvent
    /\ UNCHANGED <<store, mails, lost, sess, expired, httpVars, calc>>

\* The job runs with nothing pending: the loop body is never entered.
TickEmpty(p) ==
    /\ pc[p] = "idle"
    /\ Pending(store) = <<>>
    /\ last' = NoEvent
    /\ UNCHANGED <<store, mails, lost, pollerVars, httpVars, calc>>

\* The scheduler fires while the job still runs in this process: the run is
\* dropped (max_instances is 1), the running one goes on.
TickDropped(p) ==
    /\ pc[p] # "idle"
    /\ last' = NoEvent
    /\ UNCHANGED <<store, mails, lost, pollerVars, httpVars, calc>>

\* Lines 243-247: the handling of the current entry ends as e tells, with
\* the session left as s and x; the entry's line is printed (none when the
\* lookup said unavailable) and the loop goes on to the next note.  After
\* the last one the job returns, the app context ends and its session is
\* discarded.
EndEntry(p, e, s, x) ==
    /\ last' = Finished(p, e)
    /\ rem' = [rem EXCEPT ![p] = Tail(@)]
    /\ IF Tail(rem[p]) = <<>>
       THEN /\ pc' = [pc EXCEPT ![p] = "idle"]
            /\ cur' = [cur EXCEPT ![p] = NoEntry]
            /\ sess' = [sess EXCEPT ![p] = "ok"]
            /\ expired' = [expired EXCEPT ![p] = FALSE]
       ELSE /\ pc' = [pc EXCEPT ![p] = "lookup"]
            /\ cur' = [cur EXCEPT ![p] = Entry(Head(Tail(rem[p])))]
            /\ sess' = [sess EXCEPT ![p] = s]
            /\ expired' = [expired EXCEPT ![p] = x]

\* Line 234: note.domain is read, then whoisxml_check is called.  Reading
\* an expired attribute through a broken session raises before the call.
Lookup(p) ==
    /\ pc[p] = "lookup"
    /\ IF sess[p] = "broken" /\ expired[p]
       THEN EndEntry(p, cur[p], sess[p], expired[p])
       ELSE \E res \in Outcomes :
              LET e == [cur[p] EXCEPT !.lookup = res]
              IN IF AfterLookup(res) = "send"
                 THEN /\ pc' = [pc EXCEPT ![p] = "send"]
                      /\ cur' = [cur EXCEPT ![p] = e]
                      /\ last' = NoEvent
                      /\ UNCHANGED <<rem, sess, expired>>
                 ELSE EndEntry(p, e, sess[p], expired[p])
    /\ UNCHANGED <<store, mails, lost, httpVars, calc>>

\* Lines 236-240: send_email succeeds or raises.
Send(p) ==
    /\ pc[p] = "send"
    /\ \E ok \in BOOLEAN :
         LET e == [cur[p] EXCEPT !.send = IF ok THEN "ok" ELSE "fail"]
         IN /\ mails' = IF ok THEN [mails EXCEPT ![e.id] = Bump(@)] ELSE mails
            /\ IF AfterSend(ok) = "commit"
               THEN /\ pc' = [pc EXCEPT ![p] = "commit"]
                    /\ cur' = [cur EXCEPT ![p] = e]
                    /\ last' = NoEvent
                    /\ UNCHANGED <<rem, sess, expired>>
               ELSE EndEntry(p, e, sess[p], expired[p])
    /\ UNCHANGED <<store, lost, httpVars, calc>>

\* Line 154: smtplib.SMTP(SMTP_HOST, SMTP_PORT) is given no timeout, so a
\* relay that accepts the connection and never answers blocks the call for
\* ever: the job never returns and, max_instances being 1, every later run
\* of this scheduler is dropped.
SendHangs(p) ==
    /\ pc[p] = "send"
    /\ pc' = [pc EXCEPT ![p] = "hung"]
    /\ last' = NoEvent
    /\ UNCHANGED <<store, mails, lost, rem, sess, expired, cur, httpVars, calc>>

\* Lines 241-242: note.notified = True; db.session.commit().
Commit(p) ==
    /\ pc[p] = "commit"
    /\ IF sess[p] = "broken"
       THEN /\ EndEntry(p, [cur[p] EXCEPT !.commit = "fail"], sess[p], expired[p])
            /\ store' = store
            /\ lost' = TRUE
       ELSE \E out \in CommitOutcomes :
              /\ store' = IF out = "ok" THEN MarkNotified(store, cur[p].id) ELSE store
              /\ lost' = (lost \/ out # "ok")
              /\ EndEntry(p, [cur[p] EXCEPT !.commit = IF out = "ok" THEN "ok" ELSE "fail"],
                          IF out = "ok" THEN "ok" ELSE "broken",
                          IF out = "commitfail" THEN expired[p] ELSE TRUE)
    /\ UNCHANGED <<mails, httpVars, calc>>

Next ==
    \/ \E t \in Threads : NotifyQuery(t)
    \/ \E t \in Threads : NotifyInsert(t)
    \/ \E t \in Threads : Check(t)
    \/ \E p \in Pollers : Tick(p)
    \/ \E p \in Pollers : TickEmpty(p)
    \/ \E p \in Pollers : TickDropped(p)
    \/ \E p \in Pollers : Lookup(p)
    \/ \E p \in Pollers : Send(p)
    \/ \E p \in Pollers : SendHangs(p)
    \/ \E p \in Pollers : Commit(p)

Spec == Init /\ [][Next]_vars

\* The scheduler keeps firing and a job that runs keeps going (weak
\* fairness); a lookup that can say available, a send and a commit that can
\* succeed do so in the end when tried again and again (strong fairness).
GoodLookup(p) == Lookup(p) /\ pc'[p] = "send"
GoodSend(p) == Send(p) /\ pc'[p] = "commit"
GoodCommit(p) == Commit(p) /\ last'.entry.commit = "ok"

Fairness ==
    \A p \in Pollers :
        /\ WF_vars(Tick(p))
        /\ WF_vars(Lookup(p))
        /\ WF_vars(Send(p))
        /\ WF_vars(Commit(p))
        /\ SF_vars(GoodLookup(p))
        /\ SF_vars(GoodSend(p))
        /\ SF_vars(GoodCommit(p))

\* The steps that read or write the table.  check_domain() does neither and
\* no step reads what it answers, so the table's progress is followed
\* without it; the fairness below is about jobs that keep going, so a send
\* that blocks for ever is left out as well.
FairNext ==
    \/ \E t \in Threads : NotifyQuery(t)
    \/ \E t \in Threads : NotifyInsert(t)
    \/ \E p \in Pollers : Tick(p)
    \/ \E p \in Pollers : TickEmpty(p)
    \/ \E p \in Pollers : TickDropped(p)
    \/ \E p \in Pollers : Lookup(p)
    \/ \E p \in Pollers : Send(p)
    \/ \E p \in Pollers : Commit(p)

FairSpec == Init /\ [][FairNext]_vars /\ Fairness

\* ------------------------------------------------- the functions, one call
\* The program's functions are followed one call at a time: the call's
\* input is drawn at the start, a step applies the function to it.

\* Strings of at most n characters of cs.
Strings(cs, n) == UNION { [1..k -> cs] : k \in 0..n }

\* Values of "query" and "domain" in a body.
NormInputs == Strings({"A", "a", ".", " "}, MaxStr)

\* Values of the status field: absent or null, a falsy and a truthy value
\* that is no string, and strings.
ZeroField == [tag |-> "zero", val |-> <<>>]

Fields ==
    { NoField, ZeroField, NonStrField,
      StrField(<<>>),
      StrField(AVAILABLE),
      StrField(<<"a", "v", "a", "i", "l", "a", "b", "l", "e">>),
      StrField(<<"A", "v", "a", "i", "l", "a", "b", "l", "E">>),
      StrField(<<"U", "N", "A", "V", "A", "I", "L", "A", "B", "L", "E">>),
      StrField(AVAILABLE \o <<" ">>) }

\* requests.get raises Timeout after timeout=10; the JSON has a DomainInfo
\* that is no object (data["DomainInfo"].get raises).
TimedOut == [kind |-> "timeout", hasInfo |-> FALSE, info |-> NoField, flat |-> NoField]
InfoNoObject == [kind |-> "infonoobject", hasInfo |-> TRUE, info |-> NoField, flat |-> NoField]

WhoisInputs ==
    { NetError, TimedOut, BadJson, JsonList, InfoNoObject }
        \cup { Nested(st, fl) : st \in Fields, fl \in Fields }
        \cup { Flat(fl) : fl \in Fields }

\* generate_suggestions(query, n): queries with and without a dot, sizes
\* that cut the pool and sizes that do not.
SuggestQueries == Strings({"A", "b", "."}, 2)
SuggestSizes == { 1, 2, 14, 15, 16 }

\* check_domain(): the body, what the primary lookup comes to and what the
\* lookup of each candidate would come to.
CheckBodies == { <<"A", " ">>, <<"a", ".", "b">> }

CheckInputs ==
    UNION { { [query |-> q, n |-> n, first |-> f, outs |-> o] :
                q \in CheckBodies, f \in Outcomes, o \in [1..(3 * n) -> Outcomes] } :
            n \in 1..MaxCheckN }

Call(f, x) == [fn |-> f, arg |-> x, done |-> FALSE, res |-> <<>>]

Calls ==
    { Call("normalise", x) : x \in NormInputs }
        \cup { Call("whoisxml_check", r) : r \in WhoisInputs }
        \cup { Call("generate_suggestions", [query |-> q, n |-> n]) :
                   q \in SuggestQueries, n \in SuggestSizes }
        \cup { Call("check_domain", c) : c \in CheckInputs }

PureInit == Started /\ calc \in Calls

Return(v) ==
    /\ calc' = [calc EXCEPT !.done = TRUE, !.res = v]
    /\ UNCHANGED <<store, mails, lost, last, pollerVars, httpVars>>

\* Lines 171-177 and 206-210: the domain /check looks up and the domain
\* /notify stores, for the same input.
ApplyNormalise ==
    /\ calc.fn = "normalise" /\ ~calc.done
    /\ Return([check |-> CheckDomain(CheckQuery(calc.arg)),
               notify |-> NotifyDomain(calc.arg)])

ApplyWhois ==
    /\ calc.fn = "whoisxml_check" /\ ~calc.done
    /\ Return(whoisxml_check(calc.arg))

ApplySuggest ==
    /\ calc.fn = "generate_suggestions" /\ ~calc.done
    /\ Return(generate_suggestions(calc.arg.query, calc.arg.n))

ApplyCheck ==
    /\ calc.fn = "check_domain" /\ ~calc.done
    /\ Return(CheckResponse(calc.arg.query, calc.arg.n, calc.arg.first, calc.arg.outs))

PureNext ==
    \/ ApplyNormalise
    \/ ApplyWhois
    \/ ApplySuggest
    \/ ApplyCheck

PureSpec == PureInit /\ [][PureNext]_vars

\* ================================================================= claims
Range(q) == { q[i] : i \in DOMAIN q }

\* Rows of s that are still to be notified.
Unnotified(s) == { i \in 1..Len(s) : ~s[i].notified }

\* The step ends poller p's handling of an entry.
Finishes(p) == last'.kind = "entry" /\ last'.who = p /\ rem'[p] # rem[p]

\* C1: at every moment, requests in flight included, the table holds at
\* most one row with notified = false for a normalised (domain, email).
C1_AtMostOneActive ==
    \A i, j \in 1..Len(store) :
        (/\ store[i].domain = store[j].domain
         /\ store[i].email = store[j].email
         /\ ~store[i].notified
         /\ ~store[j].notified) => i = j

\* C2: a row's notified flag goes from false to true only in the commit
\* step of a poll cycle whose lookup for that row said available and whose
\* send_email for it returned before; no request handler sets it.
C2_NotifiedOnlyAfterSend ==
    [][\A i \in 1..Len(store) :
         (~store[i].notified /\ store'[i].notified) =>
            \E p \in Pollers :
               /\ pc[p] = "commit"
               /\ cur[p].id = i
               /\ cur[p].lookup = "available"
               /\ cur[p].send = "ok"
               /\ mails[i] >= 1
               /\ last' = Finished(p, [cur[p] EXCEPT !.commit = "ok"])
               /\ hpc' = hpc]_vars

C2_Witness ==
    /\ last.kind = "entry"
    /\ last.entry.commit = "ok"
    /\ store[last.entry.id].notified
    /\ mails[last.entry.id] = 1

C5_EveryEntryLookedUp ==
    last.kind = "entry" => last.entry.lookup # "none"

\* C6: as long as every successful send was followed by a completed commit,
\* a row gets at most one email, and a notified row got exactly one.
C6_ExactlyOneEmail ==
    ~lost => \A i \in 1..Len(store) :
                /\ mails[i] <= 1
                /\ store[i].notified => mails[i] = 1

\* C7: two poll cycles never run at the same time, so no pending entry is
\* held by two cycles at once.
C7_NoOverlap ==
    \A p, q \in Pollers :
        p # q => (pc[p] = "idle" \/ pc[q] = "idle")

\* C8: every cycle's snapshot holds every row that is not notified, and
\* under FairSpec's fairness every such row is notified in the end.
C8_SnapshotsAll ==
    \A p \in Pollers :
        (pc[p] = "idle" /\ pc'[p] # "idle") => Range(rem'[p]) = Unnotified(store)

C8_EventuallyNotified ==
    /\ [][C8_SnapshotsAll]_vars
    /\ \A i \in 1..MaxRows :
          (i <= Len(store) /\ ~store[i].notified)
              ~> (i <= Len(store) /\ store[i].notified)

C8_Witness ==
    /\ last.kind = "entry"
    /\ last.entry.commit = "ok"
    /\ store[last.entry.id].notified
    /\ mails[last.entry.id] = 2
    /\ lost

\* C9: a row whose notified flag is true keeps it true in every later state.
C9_NotifiedMonotonic ==
    [][\A i \in 1..Len(store) :
         store[i].notified => (i <= Len(store') /\ store'[i].notified)]_vars

C9_Witness ==
    /\ last.kind = "entry"
    /\ last.entry.commit = "fail"
    /\ store[last.entry.id].notified

\* What a /notify step of thread t does to the table, for C10.
\* The request finds an active row for its pair and answers.
NotifyHit(t) == hpc[t] = "idle" /\ last'.kind = "response" /\ last'.who = t
                                /\ last'.resp.op = "notify"
\* The request finds none and goes on to insert.
NotifyMiss(t) == hpc[t] = "idle" /\ hpc'[t] = "insert"
\* The request's insert and commit.
NotifyAdds(t) == hpc[t] = "insert" /\ hpc'[t] = "idle"

C10_Duplicate(t) ==
    /\ NotifyHit(t) =>
          /\ ActiveRows(store, last'.req.domain, last'.req.email) # {}
          /\ last'.resp = Already
          /\ store' = store
    /\ NotifyMiss(t) =>
          /\ ActiveRows(store, hreq'[t].domain, hreq'[t].email) = {}
          /\ store' = store

C10_Added(t) ==
    /\ last' = Responded(t, hreq[t], Registered)
    /\ store' = Append(store, Row(hreq[t].domain, hreq[t].email))
    /\ (ActiveRows(store, hreq[t].domain, hreq[t].email) = {}
           => Cardinality(ActiveRows(store', hreq[t].domain, hreq[t].email)) = 1)

\* C10 as stated: a /notify for a pair with an active row answers 200
\* "Already registered" and leaves the table as it was; one for a pair with
\* none answers 201 and adds exactly one row with notified = false.
C10_Original ==
    [][\A t \in Threads :
         /\ C10_Duplicate(t)
         /\ NotifyAdds(t) => C10_Added(t)]_vars

\* C10, amended: as above, but the request for a pair with no active row
\* answers 201 and adds the one row when its commit succeeds; when the
\* commit raises it answers 500 and the table is as it was.
C10_Amended ==
    [][\A t \in Threads :
         /\ C10_Duplicate(t)
         /\ NotifyAdds(t) =>
               \/ C10_Added(t)
               \/ /\ last'.kind = "response"
                  /\ last'.who = t
                  /\ last'.resp.status = 500
                  /\ store' = store]_vars

C10_Witness ==
    /\ last.kind = "response"
    /\ last.resp = Already
    /\ Cardinality(ActiveRows(store, last.req.domain, last.req.email)) = 1
    /\ Len(store) = 1

\* Rows of s for (d, e) that have been notified.
NotifiedRows(s, d, e) ==
    { i \in 1..Len(s) : s[i].domain = d /\ s[i].email = e /\ s[i].notified }

\* A pair whose rows are all notified is never answered "Already
\* registered".
C11_NotBlocked(t) ==
    (NotifyHit(t) /\ NotifiedRows(store, last'.req.domain, last'.req.email) # {})
        => ActiveRows(store, last'.req.domain, last'.req.email) # {}

\* The insert for a pair with a notified row answers 201, appends the new
\* unnotified row and leaves every row there was, the notified ones
\* included; with no other request in between the new row is the pair's
\* only active one.
C11_NewRow(t) ==
    /\ last' = Responded(t, hreq[t], Registered)
    /\ Len(store') = Len(store) + 1
    /\ store'[Len(store')] = [domain |-> hreq[t].domain, email |-> hreq[t].email,
                              notified |-> FALSE]
    /\ \A i \in 1..Len(store) : store'[i] = store[i]
    /\ NotifiedRows(store', hreq[t].domain, hreq[t].email)
          = NotifiedRows(store, hreq[t].domain, hreq[t].email)
    /\ (ActiveRows(store, hreq[t].domain, hreq[t].email) = {}
           => ActiveRows(store', hreq[t].domain, hreq[t].email) = {Len(store')})

\* The request's insert for a pair that has a notified row.
C11_Again(t) ==
    NotifyAdds(t) /\ NotifiedRows(store, hreq[t].domain, hreq[t].email) # {}

C18_NoStall ==
    \A p \in Pollers : pc[p] # "hung"

\* The step is one of thread t's /notify.
NotifyStep(t) == NotifyHit(t) \/ NotifyMiss(t) \/ NotifyAdds(t)

\* The step is the answer of a /check.
CheckStep == last'.kind = "response" /\ last'.resp.op = "check"

\* C12: no step removes a row or changes the domain or the email of one; a
\* row that changes does so in a poller's commit for it; a /check step
\* leaves the table as it is and answers what the lookups alone decide; a
\* /notify step leaves the table as it is or appends one unnotified row.
C12_RowsKept ==
    [][/\ Len(store') >= Len(store)
       /\ \A i \in 1..Len(store) :
            /\ store'[i].domain = store[i].domain
            /\ store'[i].email = store[i].email
            /\ store'[i] # store[i] =>
                  \E p \in Pollers :
                     /\ pc[p] = "commit"
                     /\ cur[p].id = i
                     /\ Finishes(p)
                     /\ hpc' = hpc
       /\ CheckStep => (store' = store /\ last'.resp \in CheckResponses)
       /\ \A t \in Threads :
            NotifyStep(t) =>
               \/ store' = store
               \/ /\ Len(store') = Len(store) + 1
                  /\ SubSeq(store', 1, Len(store)) = store
                  /\ ~store'[Len(store')].notified]_vars

C12_Witness ==
    /\ last.kind = "response"
    /\ last.resp.op = "check"
    /\ Len(store) = 2
    /\ store[1].notified
    /\ ~store[2].notified

C20_Snapshot ==
    [][/\ \A p \in Pollers :
            /\ pc[p] # "idle" => Range(rem'[p]) \subseteq Range(rem[p])
            /\ (pc[p] = "idle" /\ pc'[p] # "idle") =>
                  \A i \in Unnotified(store) : i \in Range(rem'[p])
       /\ \A t \in Threads :
            /\ (NotifyAdds(t) /\ Len(store') > Len(store)) =>
                  /\ Len(store') \in Unnotified(store')
                  /\ \A p \in Pollers :
                        /\ Len(store') \notin Range(rem'[p])
                        /\ \A i \in Range(rem'[p]) : store'[i] = store[i]
            /\ NotifyStep(t) =>
                  /\ <<pc, rem, sess, expired, cur>>' = <<pc, rem, sess, expired, cur>>
                  /\ \A i \in 1..Len(mails) : mails'[i] = mails[i]
            /\ NotifyHit(t) =>
                  ActiveRows(store, last'.req.domain, last'.req.email) # {}
            /\ NotifyMiss(t) =>
                  ActiveRows(store, hreq'[t].domain, hreq'[t].email) = {}]_vars

C20_Witness ==
    /\ last.kind = "response"
    /\ last.resp = Registered
    /\ Len(store) = 2
    /\ \E p \in Pollers : pc[p] = "send" /\ rem[p] = <<1>>

\* A call of f has returned.
Returned(f) == calc.fn = f /\ calc.done

\* The candidates a /check body's suggestion loop goes through.
PoolOf(a) == generate_suggestions(Lower(Strip(a.query)), a.n)

\* Among the first k candidates, those whose lookup says available.
AvailableUpTo(a, k) == { j \in 1..k : a.outs[j] = "available" }

\* The lookups the loop makes: up to the candidate that fills the list,
\* the whole pool when none does.
Tried(a) ==
    LET len == Len(PoolOf(a))
        full == { k \in 1..len : Cardinality(AvailableUpTo(a, k)) >= a.n }
    IN IF full = {} THEN len
       ELSE CHOOSE k \in full : \A j \in full : k <= j

\* C14: when the primary lookup raises, /check answers 500 with an error
\* body after that one lookup; otherwise it answers 200, and a candidate
\* whose lookup raises is not suggested and does not end the loop: the next
\* candidate is looked up.
C14_CheckErrors ==
    Returned("check_domain") =>
        LET a == calc.arg
            r == calc.res
            pool == PoolOf(a)
        IN IF a.first = "error"
           THEN /\ r.status = 500
                /\ r.message = "error"
                /\ r.calls = 1
                /\ r.suggestions = <<>>
           ELSE /\ r.status = 200
                /\ \A k \in 1..Len(pool) :
                     (a.outs[k] = "error" /\ Cardinality(AvailableUpTo(a, k)) < a.n) =>
                        /\ pool[k] \notin Range(r.suggestions)
                        /\ k < Len(pool) => r.calls - 1 > k

C14_Witness ==
    /\ Returned("check_domain")
    /\ calc.arg.n = 1
    /\ calc.arg.first = "unavailable"
    /\ calc.arg.outs[1] = "error"
    /\ calc.arg.outs[2] = "available"
    /\ calc.res.status = 200
    /\ calc.res.suggestions = <<PoolOf(calc.arg)[2]>>

\* C15: for max_suggestions n >= 1 and any outcomes of the lookups, the
\* suggestions are at most n, they are the candidates found available
\* among those looked up, in the pool's order, and the loop looks up at
\* most 3 * n candidates, one after the other, up to the one that fills the
\* list.
C15_Suggestions ==
    (Returned("check_domain") /\ calc.arg.first # "error") =>
        LET a == calc.arg
            r == calc.res
            pool == PoolOf(a)
            tried == Tried(a)
            picked == AvailableUpTo(a, tried)
            nth(i) == CHOOSE k \in picked : Cardinality({ j \in picked : j <= k }) = i
        IN /\ a.n >= 1
           /\ Len(r.suggestions) <= a.n
           /\ r.calls - 1 <= 3 * a.n
           /\ r.calls - 1 = tried
           /\ Len(r.suggestions) = Cardinality(picked)
           /\ \A i \in 1..Len(r.suggestions) : r.suggestions[i] = pool[nth(i)]

C15_Witness ==
    /\ Returned("check_domain")
    /\ calc.arg.n = 2
    /\ calc.arg.first = "available"
    /\ calc.arg.outs[1] = "available"
    /\ calc.arg.outs[2] = "error"
    /\ calc.arg.outs[3] = "available"
    /\ calc.arg.outs[4] = "available"
    /\ calc.res.calls = 4
    /\ Len(calc.res.suggestions) = 2

\* Where x occurs first in cs.
FirstAt(cs, x) == CHOOSE i \in 1..Len(cs) : cs[i] = x /\ \A j \in 1..(i - 1) : cs[j] # x

\* C16: generate_suggestions(q, n) has at most 3 * n entries and no string
\* twice; its entries are candidates of the concatenation, in the order of
\* their first occurrences, and a candidate is left out only when the list
\* is full and the candidate first occurs after the last entry.
C16_Pool ==
    Returned("generate_suggestions") =>
        LET n == calc.arg.n
            all == Candidates(Label(Lower(calc.arg.query)))
            got == calc.res
        IN /\ Len(got) <= 3 * n
           /\ \A i, j \in 1..Len(got) : i # j => got[i] # got[j]
           /\ \A i \in 1..Len(got) : got[i] \in Range(all)
           /\ \A i, j \in 1..Len(got) :
                i < j => FirstAt(all, got[i]) < FirstAt(all, got[j])
           /\ \A x \in Range(all) :
                x \notin Range(got) =>
                   /\ Len(got) = 3 * n
                   /\ FirstAt(all, x) > FirstAt(all, got[Len(got)])

C16_Witness ==
    /\ Returned("generate_suggestions")
    /\ calc.arg.n = 16
    /\ Len(calc.res) = 44
    /\ Len(Candidates(Label(Lower(calc.arg.query)))) = 47

\* The domain the claim gives for input x: lower-cased, ".com" appended
\* when x holds no ".".
C17_AsStated(x) ==
    IF HasDot(x) THEN Lower(x) ELSE Lower(x) \o <<".", "c", "o", "m">>

\* The same of the input with its surrounding whitespace removed.
C17_Stripped(x) == C17_AsStated(Strip(x))

\* C17 as stated: for every input, the domain /check looks up and the
\* domain /notify stores are both the lower-cased input, with ".com"
\* appended exactly when the input holds no ".".
C17_Original ==
    Returned("normalise") =>
        /\ calc.res.check = C17_AsStated(calc.arg)
        /\ calc.res.notify = C17_AsStated(calc.arg)

\* C17, amended: for every input the two domains are equal, and are the
\* input with surrounding whitespace removed, lower-cased, with ".com"
\* appended exactly when it holds no ".".
C17_Amended ==
    Returned("normalise") =>
        /\ calc.res.check = calc.res.notify
        /\ calc.res.notify = C17_Stripped(calc.arg)

C17_Witness ==
    /\ Returned("normalise")
    /\ calc.arg = <<" ", "A", " ">>
    /\ calc.res.check = <<"a", ".", "c", "o", "m">>
    /\ calc.res.notify = <<"a", ".", "c", "o", "m">>

\* Equal but for the case of the letters.
SameIgnoringCase(a, b) ==
    Len(a) = Len(b) /\ \A i \in 1..Len(a) : LowerCh(a[i]) = LowerCh(b[i])

\* C19: whoisxml_check gives one of three results.  It raises when the
\* request fails or times out, when the body is no JSON object, when
\* DomainInfo is no object, and when the status is a true value that is no
\* string.  Otherwise the status is DomainInfo's when the reply has a
\* DomainInfo and the flat one when it has none, and the result is
\* available exactly when the status is "AVAILABLE" but for case, and
\* unavailable for every other string and for a status that is missing or
\* false.
C19_TriState ==
    Returned("whoisxml_check") =>
        LET r == calc.arg
            status == IF r.hasInfo THEN r.info ELSE r.flat
        IN /\ calc.res \in {"available", "unavailable", "error"}
           /\ calc.res = "error" <=>
                 (r.kind # "json" \/ status.tag = "nonstr")
           /\ calc.res = "available" <=>
                 /\ r.kind = "json"
                 /\ status.tag = "str"
                 /\ SameIgnoringCase(status.val, <<"A", "V", "A", "I", "L", "A", "B", "L", "E">>)

C19_Witness ==
    /\ Returned("whoisxml_check")
    /\ calc.arg.kind = "json"
    /\ calc.arg.hasInfo
    /\ calc.arg.info = [tag |-> "str", val |-> <<"A", "v", "a", "i", "l", "a", "b", "l", "E">>]
    /\ calc.arg.flat = [tag |-> "str", val |-> <<"U", "N", "A", "V", "A", "I", "L", "A", "B", "L", "E">>]
    /\ calc.res = "available"

====
